---- MODULE Spec2Model ----
(***************************************************************************)
(* Model of the burrito wrapper (src/wrapper/src/main.rs): a self-         *)
(* extracting installer that resolves a version-scoped install directory,  *)
(* unpacks an embedded archive into it when the directory is absent, and   *)
(* hands over to the launcher.                                             *)
(*                                                                         *)
(* Paths are records [abs, comps]: abs says whether the path starts at the *)
(* root, comps are its components in order ("..": the parent directory).   *)
(* The filesystem is the set of directories (dirs) and the files with      *)
(* their content and mode (files), both keyed by absolute locations        *)
(* (sequences of component names below the root).  Symbolic links are not  *)
(* modelled.                                                               *)
(***************************************************************************)
EXTENDS Naturals, Sequences, FiniteSets, TLC

(* ------------------------------------------------------------------ *)
(* Bounds                                                              *)
(* ------------------------------------------------------------------ *)

\* Largest number of file records in an embedded archive.
MaxRecords == 2

(* ------------------------------------------------------------------ *)
(* Program constants                                                   *)
(* ------------------------------------------------------------------ *)

RELEASE_NAME == "demo"

INSTALL_SUFFIX == ".burrito"

\* fchmod keeps the permission bits of the mode it is given (0o7777).
PermissionBits == 4096

\* Mode of a file made by File::create (0o644: 0o666 under a 022 umask).
CreateMode == 420

(* ------------------------------------------------------------------ *)
(* Paths (std::path::PathBuf)                                          *)
(* ------------------------------------------------------------------ *)

PathOf(abs, comps) == [abs |-> abs, comps |-> comps]

\* PathBuf::push: an absolute argument replaces the path, a relative one
\* is appended.
PushPath(path, arg) ==
    IF arg.abs THEN arg
    ELSE PathOf(path.abs, path.comps \o arg.comps)

\* Path::parent: None (<<>>) for the root and for the empty path.
ParentPath(path) ==
    IF path.comps = <<>> THEN <<>>
    ELSE << PathOf(path.abs, SubSeq(path.comps, 1, Len(path.comps) - 1)) >>

\* Working directory of the process, against which relative paths resolve.
Cwd == << "cwd" >>

RECURSIVE Walk(_, _)
Walk(loc, comps) ==
    IF comps = <<>> THEN loc
    ELSE IF Head(comps) = ".."
         THEN Walk(IF loc = <<>> THEN loc ELSE SubSeq(loc, 1, Len(loc) - 1),
                   Tail(comps))
         ELSE Walk(Append(loc, Head(comps)), Tail(comps))

\* The absolute location the operating system resolves a path to.
Resolve(path) == Walk(IF path.abs THEN <<>> ELSE Cwd, path.comps)

IsPrefix(s, t) == Len(s) <= Len(t) /\ SubSeq(t, 1, Len(s)) = s

\* Whether location loc lies inside directory dir (dir itself excluded).
Inside(dir, loc) == IsPrefix(dir, loc) /\ loc # dir

\* Mutant: only the path itself is made a directory, as by create_dir.
DirChain_last(path) == << Resolve(path) >>

\* The locations create_dir_all makes sure are directories: the path itself
\* and every ancestor of it, outermost first.
DirChain(path) ==
    [i \in 1..(Len(path.comps) + 1) |->
        Resolve(PathOf(path.abs, SubSeq(path.comps, 1, i - 1)))]

(* ------------------------------------------------------------------ *)
(* Embedded data of a build                                            *)
(* ------------------------------------------------------------------ *)

\* The embedded metadata string: a JSON object (the fields it holds), or
\* text that is no JSON at all.
JsonObject(fields) == [json |-> TRUE, fields |-> fields]

NotJson == [json |-> FALSE, fields |-> [k \in {} |-> << >>]]

\* The strings builds embed: no JSON, an object without app_version, and
\* the metadata of ERTS 1, application 1_1 (versions are sequences of
\* characters).
MetadataStrings ==
    { NotJson,
      JsonObject([k \in {"erts_version"} |-> <<"1">>]),
      JsonObject([erts_version |-> <<"1">>, app_version |-> <<"1", "_", "1">>]) }

\* FoilzFileRecord values of the archives.
FoilzFileRecord(path, mode, data) ==
    [file_path |-> path, file_mode |-> mode, file_data |-> data]

\* The file of the release's start script: a regular file, mode 0o100755.
DemoRecord == FoilzFileRecord(PathOf(FALSE, <<"bin", "demo">>), 33261, <<1, 2>>)

Records ==
    { DemoRecord,
      FoilzFileRecord(PathOf(FALSE, <<"bin", "demo">>), 0, << >>),
      FoilzFileRecord(PathOf(FALSE, <<"..", "x">>), 493, << >>),
      FoilzFileRecord(PathOf(TRUE, <<"etc", "x">>), 493, << >>),
      FoilzFileRecord(PathOf(TRUE, << >>), 493, << >>) }

\* The archives: up to MaxRecords records, none of them twice.
Archives ==
    UNION { { a \in [1..n -> Records] :
                \A i, j \in 1..n : i # j => a[i] # a[j] } : n \in 0..MaxRecords }

\* The embedded payload: whether the snappy envelope is intact, the file
\* records of the Foilz stream, and whether the stream is well formed to
\* its end (a truncated or inconsistent stream still starts with records).
Payload(snap_ok, files, well_formed) ==
    [snap_ok |-> snap_ok, files |-> files, well_formed |-> well_formed]

Payloads ==
    { Payload(TRUE, a, TRUE) : a \in Archives }
    \cup { Payload(ok, << DemoRecord >>, ~ok) : ok \in BOOLEAN }

\* An argument whose bytes are no valid Unicode.
NotUnicodeArg == "<not unicode>"

\* Command lines (argv) the executable is started with.
Argvs == { <<"demo", "-v", "x">>, <<"demo", NotUnicodeArg>> }

\* The override variable as env::var sees it, and dirs::data_dir().
EnvUnset == [state |-> "unset", val |-> PathOf(FALSE, << >>)]

EnvNotUnicode == [state |-> "not_unicode", val |-> PathOf(TRUE, <<"tmp", "non-utf8">>)]

EnvSet(path) == [state |-> "set", val |-> path]

EnvVars ==
    { EnvUnset, EnvNotUnicode,
      EnvSet(PathOf(FALSE, << >>)), EnvSet(PathOf(TRUE, <<"tmp", "custom">>)) }

DataDirs == { << >>, << PathOf(TRUE, <<"home", "share">>) >> }

\* Exit statuses of the launched application.
AppStatuses == { 0, 1 }

(* ------------------------------------------------------------------ *)
(* Results                                                             *)
(* ------------------------------------------------------------------ *)

Ok(v) == [ok |-> TRUE, val |-> << v >>, err |-> "none"]

Err(e) == [ok |-> FALSE, val |-> << >>, err |-> e]

(* ------------------------------------------------------------------ *)
(* Pure functions of the program                                       *)
(* ------------------------------------------------------------------ *)

\* Mutant: a string that does not decode yields metadata with empty versions.
maybe_parse_metadata_default(str) ==
    IF str.json /\ {"erts_version", "app_version"} \subseteq DOMAIN str.fields
    THEN Ok([erts_version |-> str.fields["erts_version"],
             app_version |-> str.fields["app_version"]])
    ELSE Ok([erts_version |-> << >>, app_version |-> << >>])

\* serde_json::from_str into PayloadMetadata: both fields are required.
maybe_parse_metadata(str) ==
    IF str.json /\ {"erts_version", "app_version"} \subseteq DOMAIN str.fields
    THEN Ok([erts_version |-> str.fields["erts_version"],
             app_version |-> str.fields["app_version"]])
    ELSE Err("MetadataCorrupted")

RECURSIVE Str(_)
\* A sequence of characters as one string.
Str(s) == IF s = << >> THEN "" ELSE Head(s) \o Str(Tail(s))

\* Mutant: the two versions are not separated in the directory name.
install_suffix_unseparated(release_meta) ==
    RELEASE_NAME \o "_erts-" \o Str(release_meta.erts_version)
                 \o Str(release_meta.app_version)

\* format!("{}_erts-{}_{}", RELEASE_NAME, erts_version, app_version)
install_suffix(release_meta) ==
    RELEASE_NAME \o "_erts-" \o Str(release_meta.erts_version)
                 \o "_" \o Str(release_meta.app_version)

push_final_install_dir(base_install_dir, release_meta) ==
    PushPath(base_install_dir, PathOf(FALSE, << install_suffix(release_meta) >>))

\* Mutant: without a data directory the base falls back to the empty path.
get_base_install_dir_fallback(env_var, default_base_dir) ==
    Ok(PushPath(IF env_var.state = "set" THEN env_var.val
                ELSE IF default_base_dir = << >> THEN PathOf(FALSE, << >>)
                ELSE default_base_dir[1],
                PathOf(FALSE, << INSTALL_SUFFIX >>)))

get_base_install_dir(env_var, default_base_dir) ==
    IF env_var.state = "set"
    THEN Ok(PushPath(env_var.val, PathOf(FALSE, << INSTALL_SUFFIX >>)))
    ELSE IF default_base_dir = << >>
         THEN Err("ExtractCannotComputeInstallDir")
         ELSE Ok(PushPath(default_base_dir[1], PathOf(FALSE, << INSTALL_SUFFIX >>)))

\* Mutant: a stream that ends badly still yields the records it starts with.
decode_payload_lenient(payload) ==
    IF ~payload.snap_ok THEN Err("PayloadDecompressFailed")
    ELSE Ok(payload.files)

\* snap::raw::Decoder::decompress_vec, then FoilzPayload::read_be on the
\* whole decompressed stream.
decode_payload(payload) ==
    IF ~payload.snap_ok THEN Err("PayloadDecompressFailed")
    ELSE IF ~payload.well_formed THEN Err("PayloadDecompressFailed")
    ELSE Ok(payload.files)

(* ------------------------------------------------------------------ *)
(* State                                                               *)
(* ------------------------------------------------------------------ *)

VARIABLES
    build,      \* what is compiled into the executable: IS_PROD, cfg(unix),
                \* RELEASE_METADATA_STR, the embedded payload
    environ,    \* the override variable and the platform data directory
    dirs,       \* filesystem: the directories that exist
    files,      \* filesystem: location -> [data, mode] of the files
    proc        \* per process: main's position and locals, and what the
                \* run has done so far (trace, ops)

vars == << build, environ, dirs, files, proc >>

\* The processes; the sequential specification runs them one at a time.
Procs == { "p1", "p2" }

NoPath == PathOf(FALSE, << >>)

NoMeta == [erts_version |-> << >>, app_version |-> << >>]

NoFiles == [l \in {} |-> [data |-> << >>, mode |-> 0]]

\* A process that has not been started.
Idle ==
    [pc |-> "idle",
     argv |-> << >>,                \* the command line of the process
     args |-> << >>,                \* env::args().skip(1)
     release_meta |-> NoMeta,
     base_install_dir |-> NoPath,
     needs_install |-> FALSE,
     parsed_files |-> << >>,        \* parsed_payload.files
     k |-> 0,                       \* index of the record being written
     error |-> "none",
     prev_error |-> "none",         \* error of the run before this one
     prev_installed |-> FALSE,      \* the run before this one installed
                                    \* the archive without error
     exit_code |-> << >>,           \* <<status>> once the process has exited
     launched |-> << >>,            \* the arguments launch_app was given
     trace |-> << >>,               \* the calls made, in order
     ops |-> << >>,                 \* the filesystem changes made, in order
     existed |-> FALSE,             \* result of Path::exists at the check
     dirs0 |-> {},                  \* dirs when the run started
     files0 |-> NoFiles,            \* files when the run started
     files_k |-> NoFiles]           \* files when record k was begun

Call(op, k) == [op |-> op, k |-> k]

FsOp(op, loc, k) == [op |-> op, loc |-> loc, k |-> k]

\* Mutant: the loop over the records is left after the first one.
NextRecord_return(rec) == [rec EXCEPT !.pc = "launch_app"]

\* After record k: the next record, or the end of the loop and the launch.
NextRecord(rec) ==
    IF rec.k < Len(rec.parsed_files)
    THEN [rec EXCEPT !.pc = "write_payload_file", !.k = rec.k + 1]
    ELSE [rec EXCEPT !.pc = "launch_app"]

\* Mutant: an error of write_payload_file is dropped and the loop goes on.
Exited_ignored(rec, code, err) ==
    IF rec.pc \in { "file_create", "write_all", "set_permissions" }
    THEN [NextRecord(rec) EXCEPT !.error = err]
    ELSE [rec EXCEPT !.pc = "exited", !.exit_code = << code >>, !.error = err]

\* Mutant: the process exits with status 0 whatever happened.
Exited_status0(rec, code, err) ==
    [rec EXCEPT !.pc = "exited", !.exit_code = << 0 >>, !.error = err]

\* The process record after exit(code).
Exited(rec, code, err) ==
    [rec EXCEPT !.pc = "exited", !.exit_code = << code >>, !.error = err]

Running(p) == proc[p].pc \notin { "idle", "exited" }

Init ==
    /\ build \in [IS_PROD : BOOLEAN, unix : BOOLEAN,
                 RELEASE_METADATA_STR : MetadataStrings, payload : Payloads]
    /\ environ \in [env_var : EnvVars, data_dir : DataDirs]
    /\ dirs = { << >>, Cwd, <<"home">>, <<"home", "share">>, <<"etc">>,
                <<"tmp">>, <<"tmp", "custom">> }
    /\ files = NoFiles
    /\ proc = [p \in Procs |-> Idle]

(* ------------------------------------------------------------------ *)
(* main                                                                *)
(* ------------------------------------------------------------------ *)

\* Mutant: the program name is not skipped.
args_unskipped(argv) == argv

\* env::args().skip(1).collect()
args(argv) == Tail(argv)

\* Status of a process ended by a panic.
PanicStatus == 101

\* The executable is started: main collects its arguments; env::args()
\* panics on an argument that is no valid Unicode.
Start(p) ==
    /\ ~Running(p)
    /\ \E argv \in Argvs :
         LET rec == [Idle EXCEPT !.argv = argv,
                                 !.prev_error = proc[p].error,
                                 !.prev_installed =
                                     /\ proc[p].parsed_files = build.payload.files
                                     /\ proc[p].needs_install
                                     /\ proc[p].launched # << >>,
                                 !.dirs0 = dirs,
                                 !.files0 = files]
         IN  proc' = [proc EXCEPT ![p] =
                        IF \E i \in DOMAIN argv : argv[i] = NotUnicodeArg
                        THEN Exited(rec, PanicStatus, "none")
                        ELSE [rec EXCEPT !.pc = "maybe_parse_metadata",
                                         !.args = args(argv)]]
    /\ UNCHANGED << build, environ, dirs, files >>

ParseMetadata(p) ==
    /\ proc[p].pc = "maybe_parse_metadata"
    /\ LET res == maybe_parse_metadata(build.RELEASE_METADATA_STR)
           rec == [proc[p] EXCEPT
                     !.trace = Append(@, Call("maybe_parse_metadata", 0))]
       IN  proc' = [proc EXCEPT ![p] =
                      IF res.ok
                      THEN [rec EXCEPT !.pc = "get_base_install_dir",
                                       !.release_meta = res.val[1]]
                      ELSE Exited(rec, 1, res.err)]
    /\ UNCHANGED << build, environ, dirs, files >>

GetBaseInstallDir(p) ==
    /\ proc[p].pc = "get_base_install_dir"
    /\ LET res == get_base_install_dir(environ.env_var, environ.data_dir)
           rec == [proc[p] EXCEPT
                     !.trace = Append(@, Call("get_base_install_dir", 0))]
       IN  proc' = [proc EXCEPT ![p] =
                      IF res.ok
                      THEN [rec EXCEPT !.pc = "push_final_install_dir",
                                       !.base_install_dir = res.val[1]]
                      ELSE Exited(rec, 1, res.err)]
    /\ UNCHANGED << build, environ, dirs, files >>

PushFinalInstallDir(p) ==
    /\ proc[p].pc = "push_final_install_dir"
    /\ proc' = [proc EXCEPT ![p] =
                  [@ EXCEPT !.pc = "determine_needs_install",
                            !.base_install_dir =
                                push_final_install_dir(@, proc[p].release_meta),
                            !.trace = Append(@, Call("push_final_install_dir", 0))]]
    /\ UNCHANGED << build, environ, dirs, files >>

\* Mutant: a path counts as present only while no process is installing.
exists_unless_installing(path) ==
    /\ Resolve(path) \in dirs \cup DOMAIN files
    /\ \A q \in Procs :
         proc[q].pc \notin { "decompress_payload", "write_payload_file",
                             "file_create", "write_all", "set_permissions" }

\* Path::exists
exists(path) == Resolve(path) \in dirs \cup DOMAIN files

\* Mutant: the check looks for a file, not for anything at the path.
determine_needs_install_is_file(full_install_dir) ==
    Resolve(full_install_dir) \notin DOMAIN files

determine_needs_install(full_install_dir) == ~exists(full_install_dir)

\* Mutant: the existence check decides in every build.
needs_install_unforced(is_prod, full_install_dir) ==
    determine_needs_install(full_install_dir)

\* Mutant: the flag is forced in every build, not only in debug builds.
needs_install_always(is_prod, full_install_dir) == TRUE

\* The flag main acts on: debug builds always re-install.
needs_install(is_prod, full_install_dir) ==
    IF is_prod THEN determine_needs_install(full_install_dir) ELSE TRUE

DetermineNeedsInstall(p) ==
    /\ proc[p].pc = "determine_needs_install"
    /\ LET need == needs_install(build.IS_PROD, proc[p].base_install_dir)
       IN  proc' = [proc EXCEPT ![p] =
                      [@ EXCEPT !.pc = IF need THEN "decompress_payload"
                                               ELSE "launch_app",
                                !.needs_install = need,
                                !.existed = exists(proc[p].base_install_dir),
                                !.trace = Append(@, Call("determine_needs_install", 0))]]
    /\ UNCHANGED << build, environ, dirs, files >>

(* ------------------------------------------------------------------ *)
(* decompress_payload and write_payload_file                           *)
(* ------------------------------------------------------------------ *)

\* Mutant: the records are taken from the end of the archive.
Record_reversed(rec) == rec.parsed_files[Len(rec.parsed_files) + 1 - rec.k]

\* The record the process is writing, and where it goes.
Record(rec) == rec.parsed_files[rec.k]

full_path(rec) == PushPath(rec.base_install_dir, Record(rec).file_path)

DecompressPayload(p) ==
    /\ proc[p].pc = "decompress_payload"
    /\ LET res == decode_payload(build.payload)
           rec == [proc[p] EXCEPT
                     !.trace = Append(@, Call("decompress_payload", 0))]
       IN  proc' = [proc EXCEPT ![p] =
                      IF res.ok
                      THEN NextRecord([rec EXCEPT !.parsed_files = res.val[1]])
                      ELSE Exited(rec, 1, res.err)]
    /\ UNCHANGED << build, environ, dirs, files >>

\* mkdir is called for chain[i]: it is no directory yet.
Fresh(chain, i) ==
    /\ chain[i] \notin dirs
    /\ \A j \in 1..(i - 1) : chain[j] # chain[i]

\* The directories made among chain[1..n], in the order they are made.
MkdirOps(chain, n, k) ==
    LET idx == SelectSeq([i \in 1..n |-> i], LAMBDA i : Fresh(chain, i))
    IN  [m \in 1..Len(idx) |-> FsOp("mkdir", chain[idx[m]], k)]

\* fs::create_dir_all(parent_path) with every mkdir succeeding.
CreateDirAllOk(p, rec, chain) ==
    /\ \A i \in DOMAIN chain : chain[i] \notin DOMAIN files
    /\ dirs' = dirs \cup { chain[i] : i \in DOMAIN chain }
    /\ proc' = [proc EXCEPT ![p] =
                  [rec EXCEPT !.pc = "file_create",
                              !.ops = @ \o MkdirOps(chain, Len(chain), rec.k)]]

\* fs::create_dir_all(parent_path) with the mkdir of chain[j] failing: the
\* directories above it have been made.
CreateDirAllErr(p, rec, chain, j) ==
    /\ Fresh(chain, j)
    /\ \A i \in 1..(j - 1) : chain[i] \notin DOMAIN files
    /\ dirs' = dirs \cup { chain[i] : i \in 1..(j - 1) }
    /\ proc' = [proc EXCEPT ![p] =
                  Exited([rec EXCEPT !.ops = @ \o MkdirOps(chain, j - 1, rec.k)],
                         1, "ExtractMkdirFailed")]

\* write_payload_file up to and including create_dir_all (lines 147-159).
WritePayloadFile(p) ==
    /\ proc[p].pc = "write_payload_file"
    /\ LET rec0   == [proc[p] EXCEPT
                        !.trace = Append(@, Call("write_payload_file", proc[p].k)),
                        !.files_k = files]
           parent == ParentPath(full_path(rec0))
       IN  IF parent = << >>
           THEN /\ proc' = [proc EXCEPT ![p] =
                              Exited(rec0, 1, "ExtractInvalidInstallDir")]
                /\ dirs' = dirs
           ELSE LET chain == DirChain(parent[1])
                    rec   == [rec0 EXCEPT
                                !.trace = Append(@, Call("create_dir_all", rec0.k))]
                IN  \/ CreateDirAllOk(p, rec, chain)
                    \/ \E j \in DOMAIN chain : CreateDirAllErr(p, rec, chain, j)
    /\ UNCHANGED << build, environ, files >>

\* The files after File::create at loc: a new empty file, or an existing
\* one truncated (its mode kept).
Created(loc) ==
    [l \in DOMAIN files \cup { loc } |->
        IF l = loc
        THEN [data |-> << >>,
              mode |-> IF loc \in DOMAIN files THEN files[loc].mode ELSE CreateMode]
        ELSE files[l]]

\* File::create(&full_path) (lines 162-164).
FileCreate(p) ==
    /\ proc[p].pc = "file_create"
    /\ LET rec == [proc[p] EXCEPT
                     !.trace = Append(@, Call("file_create", proc[p].k))]
           loc == Resolve(full_path(rec))
       IN  \/ /\ loc \notin dirs
              /\ files' = Created(loc)
              /\ proc' = [proc EXCEPT ![p] =
                            [rec EXCEPT !.pc = "write_all",
                                        !.ops = Append(@, FsOp("create", loc, rec.k))]]
           \/ /\ files' = files
              /\ proc' = [proc EXCEPT ![p] =
                            Exited(rec, 1, "ExtractFileWriteFailed")]
    /\ UNCHANGED << build, environ, dirs >>

\* Mutant: nothing reaches the file.
Written_nothing(loc, data, n) == files

\* The files after n bytes of data have been written to the file at loc.
Written(loc, data, n) ==
    [files EXCEPT ![loc] = [@ EXCEPT !.data = SubSeq(data, 1, n)]]

WriteOps(loc, n, k) == IF n > 0 THEN << FsOp("write", loc, k) >> ELSE << >>

\* new_file.write_all(&record.file_data) (lines 167-171); where the target
\* has no permission bits the record is complete after it.
WriteAll(p) ==
    /\ proc[p].pc = "write_all"
    /\ LET rec  == [proc[p] EXCEPT
                      !.trace = Append(@, Call("write_all", proc[p].k))]
           loc  == Resolve(full_path(rec))
           data == Record(rec).file_data
       IN  \/ /\ files' = Written(loc, data, Len(data))
              /\ LET done == [rec EXCEPT !.ops = @ \o WriteOps(loc, Len(data), rec.k)]
                 IN  proc' = [proc EXCEPT ![p] =
                                IF build.unix
                                THEN [done EXCEPT !.pc = "set_permissions"]
                                ELSE NextRecord(done)]
           \/ \E n \in 0..(Len(data) - 1) :
                /\ files' = Written(loc, data, n)
                /\ proc' = [proc EXCEPT ![p] =
                              Exited([rec EXCEPT !.ops = @ \o WriteOps(loc, n, rec.k)],
                                     1, "ExtractFileWriteFailed")]
    /\ UNCHANGED << build, environ, dirs >>

\* Mutant: a mode of zero is taken for no mode and the file keeps its own.
from_mode_nonzero(file_mode) ==
    IF file_mode = 0 THEN CreateMode ELSE file_mode % PermissionBits

\* The mode fchmod leaves on a file given Permissions::from_mode(file_mode).
from_mode(file_mode) == file_mode % PermissionBits

\* new_file.set_permissions(perm), compiled in under cfg(unix) (lines 178-184).
SetPermissions(p) ==
    /\ proc[p].pc = "set_permissions"
    /\ LET rec == [proc[p] EXCEPT
                     !.trace = Append(@, Call("set_permissions", proc[p].k))]
           loc == Resolve(full_path(rec))
       IN  \/ /\ files' = [files EXCEPT ![loc] =
                             [@ EXCEPT !.mode = from_mode(Record(rec).file_mode)]]
              /\ proc' = [proc EXCEPT ![p] =
                            NextRecord([rec EXCEPT
                                          !.ops = Append(@, FsOp("chmod", loc, rec.k))])]
           \/ /\ files' = files
              /\ proc' = [proc EXCEPT ![p] =
                            Exited(rec, 1, "ExtractChmodFailed")]
    /\ UNCHANGED << build, environ, dirs >>

(* ------------------------------------------------------------------ *)
(* Launch                                                              *)
(* ------------------------------------------------------------------ *)

\* erlang_launcher::launch_app(&base_install_dir, &release_meta, &args): the
\* application runs and the process ends with its status, or the launch
\* fails and main exits with 1.
LaunchApp(p) ==
    /\ proc[p].pc = "launch_app"
    /\ LET rec == [proc[p] EXCEPT
                     !.trace = Append(@, Call("launch_app", 0)),
                     !.launched = << [install_dir |-> proc[p].base_install_dir,
                                      release_meta |-> proc[p].release_meta,
                                      args |-> proc[p].args] >>]
       IN  \/ \E status \in AppStatuses :
                proc' = [proc EXCEPT ![p] = Exited(rec, status, "none")]
           \/ proc' = [proc EXCEPT ![p] = Exited(rec, 1, "LaunchFailed")]
    /\ UNCHANGED << build, environ, dirs, files >>

(* ------------------------------------------------------------------ *)
(* Specification                                                       *)
(* ------------------------------------------------------------------ *)

\* One step of process p.
Step(p) ==
    \/ Start(p)
    \/ ParseMetadata(p)
    \/ GetBaseInstallDir(p)
    \/ PushFinalInstallDir(p)
    \/ DetermineNeedsInstall(p)
    \/ DecompressPayload(p)
    \/ WritePayloadFile(p)
    \/ FileCreate(p)
    \/ WriteAll(p)
    \/ SetPermissions(p)
    \/ LaunchApp(p)

\* Runs follow one another: one process, started again after it has exited.
Next == Step("p1")

Spec == Init /\ [][Next]_vars

\* Two invocations of one production build, each started once, in any order
\* and interleaved step by step; nothing in the program orders them.
ConcurrentArchive ==
    << DemoRecord, FoilzFileRecord(PathOf(FALSE, <<"bin", "demo">>), 0, << >>) >>

InitConcurrent ==
    /\ build = [IS_PROD |-> TRUE, unix |-> TRUE,
                RELEASE_METADATA_STR |->
                    JsonObject([erts_version |-> <<"1">>,
                                app_version |-> <<"1", "_", "1">>]),
                payload |-> Payload(TRUE, ConcurrentArchive, TRUE)]
    /\ environ = [env_var |-> EnvSet(PathOf(TRUE, <<"tmp", "custom">>)),
                  data_dir |-> << PathOf(TRUE, <<"home", "share">>) >>]
    /\ dirs = { << >>, Cwd, <<"home">>, <<"home", "share">>, <<"etc">>,
                <<"tmp">>, <<"tmp", "custom">> }
    /\ files = NoFiles
    /\ proc = [p \in Procs |-> Idle]

\* The one start of an invocation.
FirstStart(p) == proc[p].pc = "idle" /\ Start(p)

NextConcurrent ==
    \E p \in Procs :
        \/ FirstStart(p)
        \/ ParseMetadata(p)
        \/ GetBaseInstallDir(p)
        \/ PushFinalInstallDir(p)
        \/ DetermineNeedsInstall(p)
        \/ DecompressPayload(p)
        \/ WritePayloadFile(p)
        \/ FileCreate(p)
        \/ WriteAll(p)
        \/ SetPermissions(p)
        \/ LaunchApp(p)

SpecConcurrent == InitConcurrent /\ [][NextConcurrent]_vars

(* ------------------------------------------------------------------ *)
(* Vocabulary of the properties                                        *)
(* ------------------------------------------------------------------ *)

Called(rec, op) == \E i \in DOMAIN rec.trace : rec.trace[i].op = op

InstallerErrors ==
    { "ExtractInvalidInstallDir", "ExtractMkdirFailed",
      "ExtractFileWriteFailed", "ExtractChmodFailed" }

\* The versioned directory of a run, once push_final_install_dir has run.
VersionedDir(rec) == Resolve(rec.base_install_dir)

PathResolved(rec) == Called(rec, "push_final_install_dir")

InstallChecked(rec) == Called(rec, "determine_needs_install")

\* The versioned directory existed when the run started.
ExistedAtStart(rec) == VersionedDir(rec) \in rec.dirs0 \cup DOMAIN rec.files0

\* The run changed nothing on disk and never called the decoder or the
\* installer: after the check it is at the launch, or has launched.
StraightToLaunch(rec) ==
    /\ rec.ops = << >>
    /\ ~Called(rec, "decompress_payload")
    /\ ~Called(rec, "write_payload_file")
    /\ rec.pc \in { "launch_app", "exited" }
    /\ rec.pc = "exited" => rec.launched # << >>

(* ------------------------------------------------------------------ *)
(* C1                                                                  *)
(* ------------------------------------------------------------------ *)

\* C1 as stated: in every build, a run that starts with the versioned
\* directory present changes nothing on disk, never calls the decoder or
\* the installer, and goes from the install check straight to the launch.
C1_AnyBuild ==
    \A p \in Procs :
        (InstallChecked(proc[p]) /\ ExistedAtStart(proc[p]))
            => StraightToLaunch(proc[p])

\* C1, amended: in every production build (IS_PROD), a run that starts with
\* the versioned directory present changes nothing on disk, never calls the
\* decoder or the installer, and goes from the check straight to the launch.
C1_Idempotence ==
    \A p \in Procs :
        (build.IS_PROD /\ InstallChecked(proc[p]) /\ ExistedAtStart(proc[p]))
            => StraightToLaunch(proc[p])

\* A production run that found the directory a previous run had filled, and
\* has launched.
C1_Witness ==
    \E p \in Procs :
        /\ build.IS_PROD
        /\ InstallChecked(proc[p]) /\ ExistedAtStart(proc[p])
        /\ proc[p].files0 # NoFiles
        /\ proc[p].pc = "exited" /\ proc[p].launched # << >>

(* ------------------------------------------------------------------ *)
(* C2                                                                  *)
(* ------------------------------------------------------------------ *)

\* The destination of record k of a run escapes the versioned directory.
Escapes(rec, k) ==
    ~Inside(VersionedDir(rec),
            Resolve(PushPath(rec.base_install_dir, rec.parsed_files[k].file_path)))

\* C2: a record whose path resolves outside the versioned directory is
\* rejected with nothing created for it, so every file the installer creates,
\* writes or chmods lies inside the versioned directory and every directory
\* it makes is the versioned directory, one above it or one inside it.
C2_Containment ==
    \A p \in Procs :
        /\ \A i \in DOMAIN proc[p].ops :
             LET o == proc[p].ops[i]
             IN  IF o.op = "mkdir"
                 THEN \/ IsPrefix(o.loc, VersionedDir(proc[p]))
                      \/ IsPrefix(VersionedDir(proc[p]), o.loc)
                 ELSE Inside(VersionedDir(proc[p]), o.loc)
        /\ \A i \in DOMAIN proc[p].trace :
             LET c == proc[p].trace[i]
             IN  (c.op = "write_payload_file" /\ Escapes(proc[p], c.k))
                    => /\ proc[p].pc = "exited"
                       /\ proc[p].error \in InstallerErrors
                       /\ \A j \in DOMAIN proc[p].ops : proc[p].ops[j].k # c.k

(* ------------------------------------------------------------------ *)
(* C3                                                                  *)
(* ------------------------------------------------------------------ *)

\* Longest version string the directory names are compared for.
MaxVerLen == 3

\* The non-empty version strings over a digit and the underscore.
VersionStrings ==
    UNION { [1..n -> {"1", "_"}] : n \in 1..MaxVerLen }

ReleaseMetadata == [erts_version : VersionStrings, app_version : VersionStrings]

HasUnderscore(v) == \E i \in DOMAIN v : v[i] = "_"

\* The metadata whose runtime_version holds no underscore.
PlainErtsMetadata == { m \in ReleaseMetadata : ~HasUnderscore(m.erts_version) }

\* The versioned segment push_final_install_dir appends, with the metadata
\* it is appended for.
NamedDirs == { << install_suffix(m), m >> : m \in ReleaseMetadata }

\* The same, for the metadata whose runtime_version holds no underscore.
PlainNamedDirs == { d \in NamedDirs : d[2] \in PlainErtsMetadata }

\* A run has just appended the versioned segment to its base directory.
JustPushed(rec) ==
    /\ rec.pc = "determine_needs_install"
    /\ rec.base_install_dir = PushPath(
           get_base_install_dir(environ.env_var, environ.data_dir).val[1],
           PathOf(FALSE, << rec.base_install_dir.comps[Len(rec.base_install_dir.comps)] >>))

\* The versioned segment of the run's directory.
DirName(rec) == rec.base_install_dir.comps[Len(rec.base_install_dir.comps)]

\* C3 as stated: under one base directory, any other metadata with non-empty
\* fields yields a versioned directory different from the one this run's
\* metadata yields.
C3_Injective ==
    \A p \in Procs :
        JustPushed(proc[p]) =>
            \A d \in NamedDirs :
                d[2] # proc[p].release_meta => d[1] # DirName(proc[p])

\* C3, amended: under one base directory, metadata whose runtime_version
\* holds no underscore yields a versioned directory different from that of
\* any other metadata whose runtime_version holds none.
C3_InjectiveNoUnderscore ==
    \A p \in Procs :
        (JustPushed(proc[p]) /\ ~HasUnderscore(proc[p].release_meta.erts_version)) =>
            \A d \in PlainNamedDirs :
                d[1] = DirName(proc[p]) => d[2] = proc[p].release_meta

\* A run has resolved the directory of metadata whose runtime_version holds
\* no underscore and whose app_version holds one.
C3_Witness ==
    \E p \in Procs :
        /\ JustPushed(proc[p])
        /\ ~HasUnderscore(proc[p].release_meta.erts_version)
        /\ HasUnderscore(proc[p].release_meta.app_version)
        /\ proc[p].release_meta \in PlainErtsMetadata
        /\ << DirName(proc[p]), proc[p].release_meta >> \in PlainNamedDirs

(* ------------------------------------------------------------------ *)
(* C4                                                                  *)
(* ------------------------------------------------------------------ *)

\* C4: whenever the override variable is set to a value v the base directory
\* is v/.burrito and resolution does not fail, whatever the platform data
\* directory; the data directory plus .burrito is the result only when the
\* variable is not set.
C4_Precedence ==
    \A p \in Procs :
        LET v == environ.env_var
        IN  /\ proc[p].pc = "push_final_install_dir" =>
                 proc[p].base_install_dir =
                    IF v.state # "unset"
                    THEN PushPath(v.val, PathOf(FALSE, << INSTALL_SUFFIX >>))
                    ELSE PushPath(environ.data_dir[1],
                                  PathOf(FALSE, << INSTALL_SUFFIX >>))
            /\ proc[p].error = "ExtractCannotComputeInstallDir" =>
                 v.state = "unset"

(* ------------------------------------------------------------------ *)
(* C5                                                                  *)
(* ------------------------------------------------------------------ *)

\* C5: a run that resolves the path with the override variable unset and no
\* platform data directory ends with CannotComputeInstallDir and status 1;
\* the install check, the decoder, the installer and the launcher never run
\* and nothing is written.
C5_FailureIsolation ==
    \A p \in Procs :
        (/\ Called(proc[p], "get_base_install_dir")
         /\ environ.env_var.state = "unset"
         /\ environ.data_dir = << >>) =>
            /\ proc[p].pc = "exited"
            /\ proc[p].error = "ExtractCannotComputeInstallDir"
            /\ proc[p].exit_code = << 1 >>
            /\ proc[p].ops = << >>
            /\ proc[p].launched = << >>
            /\ dirs = proc[p].dirs0 /\ files = proc[p].files0
            /\ \A op \in { "determine_needs_install", "decompress_payload",
                           "write_payload_file", "launch_app" } :
                 ~Called(proc[p], op)

\* A run ended by the failed path resolution.
C5_Witness ==
    \E p \in Procs :
        /\ environ.env_var.state = "unset" /\ environ.data_dir = << >>
        /\ proc[p].pc = "exited"
        /\ proc[p].error = "ExtractCannotComputeInstallDir"

(* ------------------------------------------------------------------ *)
(* C6                                                                  *)
(* ------------------------------------------------------------------ *)

\* The payload decompresses and parses to its end.
Decodable(payload) == payload.snap_ok /\ payload.well_formed

\* C6: a run that calls the decoder on a payload that does not decompress or
\* does not parse ends with PayloadDecompressFailed and status 1, with
\* nothing created or written and no launch; and a run that writes a record
\* has decoded the whole archive before.
C6_DecodeBeforeWrite ==
    \A p \in Procs :
        /\ (Called(proc[p], "decompress_payload") /\ ~Decodable(build.payload)) =>
              /\ proc[p].pc = "exited"
              /\ proc[p].error = "PayloadDecompressFailed"
              /\ proc[p].exit_code = << 1 >>
              /\ proc[p].ops = << >>
              /\ ~Called(proc[p], "write_payload_file")
              /\ proc[p].launched = << >>
        /\ (Called(proc[p], "write_payload_file") \/ proc[p].ops # << >>) =>
              /\ Called(proc[p], "decompress_payload")
              /\ Decodable(build.payload)
              /\ proc[p].parsed_files = build.payload.files

\* A run ended by a payload that decompresses but is cut short after its
\* first record.
C6_Witness ==
    \E p \in Procs :
        /\ build.payload.snap_ok /\ ~build.payload.well_formed
        /\ Len(build.payload.files) > 0
        /\ proc[p].pc = "exited"
        /\ proc[p].error = "PayloadDecompressFailed"

(* ------------------------------------------------------------------ *)
(* C7                                                                  *)
(* ------------------------------------------------------------------ *)

\* Where record j of the run's archive is written.
FileOf(rec, j) ==
    Resolve(PushPath(rec.base_install_dir, rec.parsed_files[j].file_path))

\* The run failed in the installer at record rec.k: it has exited with
\* status 1 without launching, and did nothing for a later record.
Aborted(rec) ==
    /\ rec.pc = "exited"
    /\ rec.exit_code = << 1 >>
    /\ rec.launched = << >>
    /\ \A i \in DOMAIN rec.trace : rec.trace[i].k <= rec.k
    /\ \A i \in DOMAIN rec.ops : rec.ops[i].k <= rec.k

\* The file of record j is as it was when record rec.k was begun.
Kept(rec, j) ==
    /\ FileOf(rec, j) \in DOMAIN rec.files_k
    /\ FileOf(rec, j) \in DOMAIN files
    /\ files[FileOf(rec, j)] = rec.files_k[FileOf(rec, j)]

\* C7 as stated: when the installer fails at record k the run is aborted,
\* and the file of every record before k keeps its content and mode.
C7_AbortKeepsEarlierFiles ==
    \A p \in Procs :
        proc[p].error \in InstallerErrors =>
            /\ Aborted(proc[p])
            /\ \A j \in 1..(proc[p].k - 1) : Kept(proc[p], j)

\* C7, amended: when the installer fails at record k the run is aborted, and
\* the file of every record before k that is written to another location
\* than record k keeps its content and mode.
C7_AbortKeepsOtherFiles ==
    \A p \in Procs :
        proc[p].error \in InstallerErrors =>
            /\ Aborted(proc[p])
            /\ \A j \in 1..(proc[p].k - 1) :
                 FileOf(proc[p], j) # FileOf(proc[p], proc[p].k)
                    => Kept(proc[p], j)

\* The installer failed at the second record after it had created that
\* record's file, the first record's file being elsewhere.
C7_Witness ==
    \E p \in Procs :
        /\ proc[p].error \in { "ExtractFileWriteFailed", "ExtractChmodFailed" }
        /\ proc[p].k = 2
        /\ FileOf(proc[p], 1) # FileOf(proc[p], 2)
        /\ FileOf(proc[p], 2) \in DOMAIN files
        /\ files[FileOf(proc[p], 1)].data # << >>

(* ------------------------------------------------------------------ *)
(* C8                                                                  *)
(* ------------------------------------------------------------------ *)

\* C8 as stated: after a run in which the installer failed the versioned
\* directory exists, and the next run finds it, skips decode and install and
\* goes straight to the launch.
C8_FailedInstallSkipped ==
    \A p \in Procs :
        /\ (proc[p].pc = "exited" /\ proc[p].error \in InstallerErrors)
              => VersionedDir(proc[p]) \in dirs
        /\ (proc[p].prev_error \in InstallerErrors /\ InstallChecked(proc[p]))
              => StraightToLaunch(proc[p])

\* C8, amended: after a run in which the installer failed with
\* ExtractFileWriteFailed or ExtractChmodFailed at a record with a relative
\* path the versioned directory exists; and whenever the versioned directory
\* exists after a failed install, the next run of a production build finds
\* it, skips decode and install and goes straight to the launch.
C8_FailedInstallSkippedInProd ==
    \A p \in Procs :
        /\ (/\ proc[p].pc = "exited"
            /\ proc[p].error \in { "ExtractFileWriteFailed", "ExtractChmodFailed" }
            /\ ~Record(proc[p]).file_path.abs)
              => VersionedDir(proc[p]) \in dirs
        /\ (/\ proc[p].prev_error \in InstallerErrors
            /\ build.IS_PROD
            /\ InstallChecked(proc[p])
            /\ ExistedAtStart(proc[p]))
              => StraightToLaunch(proc[p])

\* A production run has launched from the directory a failed install left
\* behind with nothing of the archive in it.
C8_Witness ==
    \E p \in Procs :
        /\ proc[p].prev_error \in InstallerErrors
        /\ build.IS_PROD
        /\ Len(build.payload.files) > 0
        /\ \A l \in DOMAIN files : ~Inside(VersionedDir(proc[p]), l)
        /\ ExistedAtStart(proc[p])
        /\ proc[p].pc = "exited" /\ proc[p].launched # << >>

(* ------------------------------------------------------------------ *)
(* C9                                                                  *)
(* ------------------------------------------------------------------ *)

\* The stage a call belongs to: metadata resolved (1), path resolved (2, 3),
\* install checked (4), installing (5, 6), launching (7).
Stage(op) ==
    CASE op = "maybe_parse_metadata" -> 1
      [] op = "get_base_install_dir" -> 2
      [] op = "push_final_install_dir" -> 3
      [] op = "determine_needs_install" -> 4
      [] op = "decompress_payload" -> 5
      [] op \in { "write_payload_file", "create_dir_all", "file_create",
                  "write_all", "set_permissions" } -> 6
      [] op = "launch_app" -> 7

StepOf(op) ==
    CASE op = "write_payload_file" -> 1
      [] op = "create_dir_all" -> 2
      [] op = "file_create" -> 3
      [] op = "write_all" -> 4
      [] op = "set_permissions" -> 5
      [] OTHER -> 0

\* Position of a call in the one order the program allows: by stage, then by
\* record, then by step within the record.
Position(c) == << Stage(c.op), c.k, StepOf(c.op) >>

Before(a, b) ==
    \/ a[1] < b[1]
    \/ a[1] = b[1] /\ a[2] < b[2]
    \/ a[1] = b[1] /\ a[2] = b[2] /\ a[3] < b[3]

\* Every record of the build's archive has been written to its last step.
AllInstalled(rec) ==
    /\ Decodable(build.payload)
    /\ rec.parsed_files = build.payload.files
    /\ \A k \in 1..Len(build.payload.files) :
         \E i \in DOMAIN rec.trace :
            rec.trace[i] = Call(IF build.unix THEN "set_permissions"
                                              ELSE "write_all", k)

\* C9: the calls of a run follow the order metadata, path, install check,
\* installing, launch, none of them twice; and the launcher is called only
\* after metadata and path were resolved and the check was made and, when
\* the check found the directory absent, every record had been installed
\* without error.
C9_LinearOrder ==
    \A p \in Procs :
        /\ \A i \in 1..(Len(proc[p].trace) - 1) :
             Before(Position(proc[p].trace[i]), Position(proc[p].trace[i + 1]))
        /\ Called(proc[p], "launch_app") =>
             /\ maybe_parse_metadata(build.RELEASE_METADATA_STR).ok
             /\ \A op \in { "maybe_parse_metadata", "get_base_install_dir",
                            "push_final_install_dir", "determine_needs_install" } :
                  Called(proc[p], op)
             /\ proc[p].error \notin InstallerErrors
             /\ ~proc[p].existed => AllInstalled(proc[p])

\* A run that found the directory absent has installed an archive of two
\* records and launched.
C9_Witness ==
    \E p \in Procs :
        /\ ~proc[p].existed
        /\ Len(build.payload.files) >= 2
        /\ proc[p].launched # << >>
        /\ proc[p].pc = "exited"

(* ------------------------------------------------------------------ *)
(* C10                                                                 *)
(* ------------------------------------------------------------------ *)

\* The calls that raise each kind of error.
Raisers(err) ==
    CASE err = "MetadataCorrupted" -> { "maybe_parse_metadata" }
      [] err = "ExtractCannotComputeInstallDir" -> { "get_base_install_dir" }
      [] err = "PayloadDecompressFailed" -> { "decompress_payload" }
      [] err = "ExtractInvalidInstallDir" -> { "write_payload_file" }
      [] err = "ExtractMkdirFailed" -> { "create_dir_all" }
      [] err = "ExtractFileWriteFailed" -> { "file_create", "write_all" }
      [] err = "ExtractChmodFailed" -> { "set_permissions" }
      [] err = "LaunchFailed" -> { "launch_app" }
      [] OTHER -> { }

\* C10: once an error has been raised the process has exited with status 1
\* and the call that raised it is the last the run made; and no call is made
\* twice within a run.
C10_FailuresTerminal ==
    \A p \in Procs :
        /\ proc[p].error # "none" =>
             /\ proc[p].pc = "exited"
             /\ proc[p].exit_code = << 1 >>
             /\ proc[p].trace # << >>
             /\ proc[p].trace[Len(proc[p].trace)].op \in Raisers(proc[p].error)
        /\ Cardinality({ proc[p].trace[i] : i \in DOMAIN proc[p].trace })
             = Len(proc[p].trace)

\* A run ended by a failed chmod of its second record.
C10_Witness ==
    \E p \in Procs :
        /\ proc[p].error = "ExtractChmodFailed"
        /\ proc[p].k = 2
        /\ proc[p].exit_code = << 1 >>

(* ------------------------------------------------------------------ *)
(* C11                                                                 *)
(* ------------------------------------------------------------------ *)

\* The embedded string is a JSON object that holds both versions.
Decodes(str) ==
    str.json /\ {"erts_version", "app_version"} \subseteq DOMAIN str.fields

\* C11: a run whose embedded metadata string does not decode ends with
\* MetadataCorrupted and status 1 having made no other call than the parse:
\* the path is not resolved, the install check is not made, nothing is
\* written and nothing is launched.
C11_MetadataFailsFast ==
    \A p \in Procs :
        (Called(proc[p], "maybe_parse_metadata")
            /\ ~Decodes(build.RELEASE_METADATA_STR)) =>
            /\ proc[p].pc = "exited"
            /\ proc[p].error = "MetadataCorrupted"
            /\ proc[p].exit_code = << 1 >>
            /\ proc[p].trace = << Call("maybe_parse_metadata", 0) >>
            /\ proc[p].base_install_dir = NoPath
            /\ proc[p].ops = << >>
            /\ proc[p].launched = << >>
            /\ dirs = proc[p].dirs0 /\ files = proc[p].files0

\* A run ended by a JSON object that lacks app_version.
C11_Witness ==
    \E p \in Procs :
        /\ build.RELEASE_METADATA_STR.json
        /\ ~Decodes(build.RELEASE_METADATA_STR)
        /\ proc[p].pc = "exited"
        /\ proc[p].error = "MetadataCorrupted"

(* ------------------------------------------------------------------ *)
(* C12                                                                 *)
(* ------------------------------------------------------------------ *)

\* The run decoded the archive and installed it without error: it is at the
\* launch, or has launched.
InstallDone(rec) ==
    /\ Called(rec, "decompress_payload")
    /\ rec.pc = "launch_app" \/ rec.launched # << >>

\* The last record of the run's archive written where record j is written.
LastAt(rec, j) ==
    CHOOSE i \in j..Len(rec.parsed_files) :
        /\ FileOf(rec, i) = FileOf(rec, j)
        /\ \A m \in (i + 1)..Len(rec.parsed_files) : FileOf(rec, m) # FileOf(rec, j)

\* The permission bits of a mode value.
PermissionsOf(mode) == mode % PermissionBits

\* C12: after an install that completed without error the file at the path
\* of every record holds the content and, on POSIX, the permission bits of
\* the last record with that path; and the records were begun in archive
\* order, each once.
C12_LastWriteWins ==
    \A p \in Procs :
        InstallDone(proc[p]) =>
            /\ \A j \in DOMAIN proc[p].parsed_files :
                 LET last == proc[p].parsed_files[LastAt(proc[p], j)]
                     loc  == FileOf(proc[p], j)
                 IN  /\ loc \in DOMAIN files
                     /\ files[loc].data = last.file_data
                     /\ build.unix => files[loc].mode = PermissionsOf(last.file_mode)
            /\ SelectSeq(proc[p].trace, LAMBDA c : c.op = "write_payload_file")
                 = [k \in DOMAIN proc[p].parsed_files |-> Call("write_payload_file", k)]

\* On POSIX a run has installed two records with the same path and
\* different content and mode, and has launched.
C12_Witness ==
    \E p \in Procs :
        /\ InstallDone(proc[p])
        /\ build.unix
        /\ proc[p].launched # << >>
        /\ Len(proc[p].parsed_files) = 2
        /\ proc[p].parsed_files[1].file_path = proc[p].parsed_files[2].file_path
        /\ proc[p].parsed_files[1].file_data # proc[p].parsed_files[2].file_data
        /\ proc[p].parsed_files[1].file_mode # proc[p].parsed_files[2].file_mode

(* ------------------------------------------------------------------ *)
(* C13                                                                 *)
(* ------------------------------------------------------------------ *)

\* The run has a filesystem change of kind op for record k.
Did(rec, op, k) == \E i \in DOMAIN rec.ops : rec.ops[i].op = op /\ rec.ops[i].k = k

\* The records the run has finished with.
Finished(rec) ==
    { k \in DOMAIN rec.parsed_files : k < rec.k \/ InstallDone(rec) }

\* C13: on a POSIX build the mode of a record is on its file once it has
\* been applied (its permission bits, zero included), every finished record
\* had its mode applied, and ExtractChmodFailed comes from the failed
\* set_permissions of the record in hand; on a build without permission bits
\* set_permissions is never called, no mode is ever changed, and
\* ExtractChmodFailed is never raised, while every finished record has had its
\* file created.
C13_PlatformConditional ==
    \A p \in Procs :
        LET rec == proc[p]
        IN  /\ build.unix =>
                 /\ (rec.ops # << >> /\ rec.ops[Len(rec.ops)].op = "chmod") =>
                      LET o == rec.ops[Len(rec.ops)]
                      IN  /\ o.loc = FileOf(rec, o.k)
                          /\ files[o.loc].mode
                                = PermissionsOf(rec.parsed_files[o.k].file_mode)
                          /\ files[o.loc].data = rec.parsed_files[o.k].file_data
                 /\ \A k \in Finished(rec) : Did(rec, "chmod", k)
                 /\ rec.error = "ExtractChmodFailed" =>
                      /\ rec.trace[Len(rec.trace)] = Call("set_permissions", rec.k)
                      /\ ~Did(rec, "chmod", rec.k)
            /\ ~build.unix =>
                 /\ ~Called(rec, "set_permissions")
                 /\ \A i \in DOMAIN rec.ops : rec.ops[i].op # "chmod"
                 /\ rec.error # "ExtractChmodFailed"
                 /\ \A l \in DOMAIN files : files[l].mode = CreateMode
            /\ \A k \in Finished(rec) : Did(rec, "create", k)

\* On POSIX the mode zero of a record has just been applied to its file.
C13_Witness ==
    \E p \in Procs :
        /\ build.unix
        /\ proc[p].ops # << >>
        /\ LET o == proc[p].ops[Len(proc[p].ops)]
           IN  /\ o.op = "chmod"
               /\ proc[p].parsed_files[o.k].file_mode = 0
               /\ files[o.loc].mode = 0

\* A build without permission bits has installed a record and launched.
C13_WitnessNoPermissions ==
    \E p \in Procs :
        /\ ~build.unix
        /\ InstallDone(proc[p]) /\ proc[p].launched # << >>
        /\ Len(proc[p].parsed_files) > 0

(* ------------------------------------------------------------------ *)
(* C14                                                                 *)
(* ------------------------------------------------------------------ *)

\* C14: from startup to the launch the argument list of a run is its
\* command line without the program name, in order; and what the launcher
\* is handed is that list, the versioned directory main resolved and the
\* metadata main parsed.
C14_ArgumentForwarding ==
    \A p \in Procs :
        /\ Running(p) =>
             /\ Len(proc[p].args) = Len(proc[p].argv) - 1
             /\ \A i \in DOMAIN proc[p].args : proc[p].args[i] = proc[p].argv[i + 1]
        /\ proc[p].launched # << >> =>
             LET l == proc[p].launched[1]
             IN  /\ Len(l.args) = Len(proc[p].argv) - 1
                 /\ \A i \in DOMAIN l.args : l.args[i] = proc[p].argv[i + 1]
                 /\ Decodes(build.RELEASE_METADATA_STR)
                 /\ l.release_meta.erts_version
                       = build.RELEASE_METADATA_STR.fields["erts_version"]
                 /\ l.release_meta.app_version
                       = build.RELEASE_METADATA_STR.fields["app_version"]
                 /\ Resolve(l.install_dir) = VersionedDir(proc[p])
                 /\ l.install_dir.comps[Len(l.install_dir.comps)]
                       = install_suffix(l.release_meta)

\* A run started with two arguments has installed the archive and launched.
C14_Witness ==
    \E p \in Procs :
        /\ Len(proc[p].argv) = 3
        /\ Called(proc[p], "write_payload_file")
        /\ proc[p].launched # << >>
        /\ proc[p].launched[1].args = << "-v", "x" >>

(* ------------------------------------------------------------------ *)
(* C15                                                                 *)
(* ------------------------------------------------------------------ *)

\* The override variable is set to the empty string.
EmptyOverride == environ.env_var = EnvSet(PathOf(FALSE, << >>))

\* C15: with the override variable set to the empty string a run resolves
\* the path as if the variable were not set: the base directory is the
\* platform data directory plus .burrito, or the run ends with
\* CannotComputeInstallDir when there is no data directory.
C15_EmptyOverrideIgnored ==
    \A p \in Procs :
        (EmptyOverride /\ Called(proc[p], "get_base_install_dir")) =>
            IF environ.data_dir = << >>
            THEN /\ proc[p].pc = "exited"
                 /\ proc[p].error = "ExtractCannotComputeInstallDir"
            ELSE proc[p].pc = "push_final_install_dir" =>
                    proc[p].base_install_dir =
                        PushPath(environ.data_dir[1],
                                 PathOf(FALSE, << INSTALL_SUFFIX >>))

(* ------------------------------------------------------------------ *)
(* C16                                                                 *)
(* ------------------------------------------------------------------ *)

\* The process is between its install check and the end of its install.
Installing(rec) ==
    rec.pc \in { "decompress_payload", "write_payload_file", "file_create",
                 "write_all", "set_permissions" }

\* C16: the install check of a production build decides by the presence of
\* the versioned directory on disk at that moment and by nothing else: what
\* another invocation is doing does not enter into it.
C16_CheckIsUnprotected ==
    [][\A p \in Procs :
         (proc[p].pc = "determine_needs_install"
             /\ proc'[p].pc # "determine_needs_install") =>
            /\ proc'[p].needs_install
                 = (VersionedDir(proc[p]) \notin dirs \cup DOMAIN files)
            /\ proc'[p].pc = IF proc'[p].needs_install THEN "decompress_payload"
                                                      ELSE "launch_app"
            /\ dirs' = dirs /\ files' = files]_vars

\* Both invocations started with the versioned directory absent; one found
\* it at its check and has handed over to the launcher without installing,
\* while the other is still installing and has not come to its last record.
C16_Witness ==
    \E p, q \in Procs :
        /\ p # q
        /\ ~ExistedAtStart(proc[p]) /\ PathResolved(proc[p])
        /\ proc[q].dirs0 = proc[p].dirs0 /\ proc[q].files0 = NoFiles
        /\ proc[p].existed /\ ~proc[p].needs_install
        /\ proc[p].launched # << >> /\ proc[p].ops = << >>
        /\ Installing(proc[q])
        /\ proc[q].k < Len(build.payload.files)
        /\ proc[q].error = "none"

\* Both invocations are extracting into the same versioned directory.
C16_WitnessBothExtract ==
    \E p, q \in Procs :
        /\ p # q
        /\ Installing(proc[p]) /\ Installing(proc[q])
        /\ proc[p].k >= 1 /\ proc[q].k >= 1
        /\ VersionedDir(proc[p]) = VersionedDir(proc[q])
        /\ proc[p].ops # << >> /\ proc[q].ops # << >>

(* ------------------------------------------------------------------ *)
(* C17                                                                 *)
(* ------------------------------------------------------------------ *)

\* The archive of the build has a record with a relative path.
HasRelativeRecord ==
    \E j \in DOMAIN build.payload.files : ~build.payload.files[j].file_path.abs

\* The run, of a production build, made its check and went straight to the
\* launch without installing.
SkippedInstall(rec) ==
    InstallChecked(rec) => (~rec.needs_install /\ StraightToLaunch(rec))

\* C17 as stated: for every archive, after a run that decoded and installed
\* without error the versioned directory exists, and the next run of a
\* production build finds it and installs nothing.
C17_InstallMarksItself ==
    \A p \in Procs :
        /\ InstallDone(proc[p]) => VersionedDir(proc[p]) \in dirs
        /\ (build.IS_PROD /\ proc[p].prev_installed) => SkippedInstall(proc[p])

\* C17, amended: for every archive that has a record with a relative path,
\* after a run that decoded and installed without error the versioned
\* directory exists, and the next run of a production build finds it and
\* installs nothing.
C17_InstallWithRelativeRecordMarksItself ==
    \A p \in Procs :
        HasRelativeRecord =>
            /\ InstallDone(proc[p]) => VersionedDir(proc[p]) \in dirs
            /\ (build.IS_PROD /\ proc[p].prev_installed) => SkippedInstall(proc[p])

\* The run after a complete install, in a production build, has gone
\* straight to the launch.
C17_Witness ==
    \E p \in Procs :
        /\ build.IS_PROD /\ HasRelativeRecord
        /\ proc[p].prev_installed
        /\ InstallChecked(proc[p])
        /\ proc[p].launched # << >>
        /\ VersionedDir(proc[p]) \in dirs

(* ------------------------------------------------------------------ *)
(* C18                                                                 *)
(* ------------------------------------------------------------------ *)

\* C18: in a debug build every run that has made the install check needs to
\* install, whether or not the versioned directory existed, and has decoded
\* the archive and installed every record of it before it launches; in a
\* production build the run needs to install exactly when the directory did
\* not exist.
C18_DebugReinstalls ==
    \A p \in Procs :
        InstallChecked(proc[p]) =>
            IF build.IS_PROD
            THEN proc[p].needs_install = ~ExistedAtStart(proc[p])
            ELSE /\ proc[p].needs_install
                 /\ proc[p].pc # "launch_app" \/ Called(proc[p], "decompress_payload")
                 /\ Called(proc[p], "launch_app") =>
                      /\ Called(proc[p], "decompress_payload")
                      /\ AllInstalled(proc[p])

\* A run of a debug build that started with the versioned directory present
\* has installed the records of the archive again and launched.
C18_Witness ==
    \E p \in Procs :
        /\ ~build.IS_PROD
        /\ InstallChecked(proc[p]) /\ ExistedAtStart(proc[p])
        /\ Len(proc[p].parsed_files) > 0
        /\ AllInstalled(proc[p])
        /\ proc[p].launched # << >>

(* ------------------------------------------------------------------ *)
(* C19                                                                 *)
(* ------------------------------------------------------------------ *)

\* The directories above the file of record k exist.
ParentsExist(rec, k) ==
    LET parent == ParentPath(PushPath(rec.base_install_dir,
                                      rec.parsed_files[k].file_path))
    IN  /\ parent # << >>
        /\ \A i \in 1..(Len(parent[1].comps) + 1) :
             Resolve(PathOf(parent[1].abs, SubSeq(parent[1].comps, 1, i - 1)))
                \in dirs

\* The file of record k holds the whole content of the record.
HoldsContent(rec, k) ==
    /\ FileOf(rec, k) \in DOMAIN files
    /\ files[FileOf(rec, k)].data = rec.parsed_files[k].file_data

\* The run made the call op for record k.
CalledFor(rec, op, k) == \E i \in DOMAIN rec.trace : rec.trace[i] = Call(op, k)

\* C19: for the record in hand the installer makes the parent directories,
\* then creates the file, then writes the content, then applies the mode, each
\* only after the one before succeeded; so with ExtractChmodFailed the file
\* holds the whole content, with ExtractFileWriteFailed the parent directories
\* exist, and with ExtractMkdirFailed no file was created or truncated for
\* the record.
C19_StepOrder ==
    \A p \in Procs :
        LET rec == proc[p]
        IN  (rec.k >= 1 /\ rec.k <= Len(rec.parsed_files)) =>
              /\ CalledFor(rec, "file_create", rec.k) =>
                    CalledFor(rec, "create_dir_all", rec.k)
              /\ (CalledFor(rec, "file_create", rec.k)
                    \/ rec.error = "ExtractFileWriteFailed") =>
                    ParentsExist(rec, rec.k)
              /\ CalledFor(rec, "write_all", rec.k) =>
                    /\ CalledFor(rec, "file_create", rec.k)
                    /\ Did(rec, "create", rec.k)
              /\ CalledFor(rec, "set_permissions", rec.k) =>
                    CalledFor(rec, "write_all", rec.k)
              /\ (CalledFor(rec, "set_permissions", rec.k)
                    \/ rec.error = "ExtractChmodFailed") =>
                    HoldsContent(rec, rec.k)
              /\ rec.error = "ExtractChmodFailed" =>
                    ~Did(rec, "chmod", rec.k)
              /\ rec.error = "ExtractFileWriteFailed" =>
                    ~CalledFor(rec, "set_permissions", rec.k)
              /\ rec.error = "ExtractMkdirFailed" =>
                    /\ ~CalledFor(rec, "file_create", rec.k)
                    /\ ~Did(rec, "create", rec.k)
                    /\ files = rec.files_k

\* The chmod of a record with content has failed.
C19_Witness ==
    \E p \in Procs :
        /\ proc[p].error = "ExtractChmodFailed"
        /\ Record(proc[p]).file_data # << >>
        /\ HoldsContent(proc[p], proc[p].k)

====
